---- MODULE Spec2Model ----
(***************************************************************************)
(* Model of package tbl (src/tbl.go): table driven test cases.            *)
(*                                                                         *)
(*   Cases(testcases...)  builds a Test from values of one type            *)
(*   tc.InOrder = b       the owner sets the order policy                  *)
(*   tc.Run(function)     validates the function, resolves the run order   *)
(*                        (flag tblTest.RunOrder, InOrder, rand.Perm) and  *)
(*                        calls the function once per index                *)
(*                                                                         *)
(* A string is a sequence of one-character strings, so that strings.Split *)
(* and strconv.ParseInt are computed character by character.               *)
(***************************************************************************)
EXTENDS Integers, Sequences, FiniteSets, TLC

VARIABLES
    runorder,   \* *runorder, the value of the flag tblTest.RunOrder
    testcases,  \* the arguments of the call of Cases
    built,      \* how the call of Cases ended
    tc,         \* the Test that Cases returned: cases, vType, InOrder
    run         \* the call of tc.Run that has just ended: its argument, the
                \* calls it made of it, and its result

vars == <<runorder, testcases, built, tc, run>>

----------------------------------------------------------------------------
(* Bounds of the inputs *)

MaxCases == 3       \* Cases is called with at most MaxCases arguments
MaxTokens == 3      \* the flag holds at most MaxTokens comma separated pieces

SeqsUpTo(S, n) == UNION {[1..k -> S] : k \in 0..n}

(* the pieces a flag is made of: "0", "2", "-1" and "0x" *)
FlagTokens == { <<"0">>, <<"2">>, <<"-", "1">>, <<"0", "x">> }

(* strings.Join(toks, ",") *)
RECURSIVE Join(_)
Join(toks) ==
    IF toks = <<>> THEN <<>>
    ELSE IF Len(toks) = 1 THEN toks[1]
    ELSE toks[1] \o <<",">> \o Join(Tail(toks))

(* the values of the flag: "", "0", "0x", "2,0", "0,-1,2", ... *)
FlagValues == {Join(toks) : toks \in SeqsUpTo(FlagTokens, MaxTokens)}

(* interface{} values handed to Cases: nil, or a value with its dynamic type *)
NilIface == [type |-> "nil", val |-> 0]

Elements ==
    { [type |-> "int", val |-> 10], [type |-> "int", val |-> 20],
      [type |-> "string", val |-> 30], NilIface }

(* the values handed to Run: one that is no function, and functions by the *)
(* types of their parameters and results                                   *)
ParamLists ==
    { <<>>, <<"int">>, <<"string">>,
      <<"int", "int">>, <<"int", "string">>, <<"string", "int">>,
      <<"string", "string">>, <<"int", "int", "string">> }

NotAFunc == [kind |-> "int", in |-> <<>>, out |-> <<>>]

Functions ==
    {NotAFunc}
    \cup {[kind |-> "func", in |-> i, out |-> o] :
              i \in ParamLists, o \in {<<>>, <<"bool">>}}
    \cup {[kind |-> "func", in |-> i, out |-> o] :
              i \in {<<"int">>, <<"int", "int">>},
              o \in {<<"int">>, <<"bool", "bool">>}}

----------------------------------------------------------------------------
(* reflect.ValueOf: the zero Value, of Kind Invalid, for a nil interface *)
ValueOf(x) ==
    IF x = NilIface THEN [kind |-> "invalid", type |-> "nil", val |-> 0]
    ELSE [kind |-> x.type, type |-> x.type, val |-> x.val]

(* strings.Split(s, ","): the pieces between the commas, empty ones included *)
RECURSIVE Split(_)
Split(s) ==
    IF \A i \in 1..Len(s) : s[i] # ","
    THEN <<s>>
    ELSE LET i == CHOOSE j \in 1..Len(s) :
                      s[j] = "," /\ \A k \in 1..(j-1) : s[k] # ","
         IN <<SubSeq(s, 1, i-1)>> \o Split(SubSeq(s, i+1, Len(s)))

Digits == {"0", "1", "2", "3", "4", "5", "6", "7", "8", "9"}

DigitVal(c) ==
    CASE c = "0" -> 0 [] c = "1" -> 1 [] c = "2" -> 2 [] c = "3" -> 3
      [] c = "4" -> 4 [] c = "5" -> 5 [] c = "6" -> 6 [] c = "7" -> 7
      [] c = "8" -> 8 [] c = "9" -> 9

RECURSIVE DecimalVal(_)
DecimalVal(ds) ==
    IF ds = <<>> THEN 0
    ELSE 10 * DecimalVal(SubSeq(ds, 1, Len(ds)-1)) + DigitVal(ds[Len(ds)])

(* strconv.ParseInt(s, 10, 64): an optional sign, then one or more decimal *)
(* digits.  The 64 bit range error cannot arise on a string of at most     *)
(* two characters, as the pieces of FlagTokens are.                      *)
ParseInt(s) ==
    LET signed == s # <<>> /\ Head(s) \in {"+", "-"}
        ds     == IF signed THEN Tail(s) ELSE s
        good   == ds # <<>> /\ \A i \in 1..Len(ds) : ds[i] \in Digits
    IN  [err |-> ~good,
         i   |-> IF ~good THEN 0
                 ELSE IF signed /\ Head(s) = "-" THEN 0 - DecimalVal(ds)
                 ELSE DecimalVal(ds)]

RECURSIVE GoodValues(_)
GoodValues(toks) ==
    IF toks = <<>> THEN <<>>
    ELSE LET p == ParseInt(Head(toks))
         IN (IF p.err THEN <<>> ELSE <<p.i>>) \o GoodValues(Tail(toks))

(* a slip: ok reports that the flag is set, not that an integer was found *)
runOrder_OkWhenSet(flag) ==
    IF flag = <<>> THEN [idx |-> <<>>, ok |-> FALSE]
    ELSE [idx |-> GoodValues(Split(flag)), ok |-> TRUE]

(* a slip: negative integers are dropped while parsing *)
runOrder_DropsNegative(flag) ==
    IF flag = <<>> THEN [idx |-> <<>>, ok |-> FALSE]
    ELSE LET idx == SelectSeq(GoodValues(Split(flag)), LAMBDA v : v >= 0)
         IN [idx |-> idx, ok |-> Len(idx) > 0]

(* runOrder(): the integers of the flag, and whether there is one *)
runOrder(flag) ==
    IF flag = <<>> THEN [idx |-> <<>>, ok |-> FALSE]
    ELSE LET idx == GoodValues(Split(flag))
         IN [idx |-> idx, ok |-> Len(idx) > 0]

----------------------------------------------------------------------------
(* Test{}: no cases, vType nil, InOrder false *)
ZeroTest == [cases |-> <<>>, vType |-> "nil", InOrder |-> FALSE]

(* a slip: the type of an element is not compared with vType *)
RECURSIVE CasesLoop_NoTypeCheck(_, _, _)
CasesLoop_NoTypeCheck(args, i, t) ==
    IF i >= Len(args) THEN [panic |-> "", at |-> i, tc |-> t]
    ELSE LET val == ValueOf(args[i+1])
         IN IF val.kind = "invalid"
            THEN [panic |-> "not a valid test case", at |-> i, tc |-> t]
            ELSE CasesLoop_NoTypeCheck(args, i+1,
                     [t EXCEPT !.vType = IF t.vType = "nil" THEN val.type ELSE @,
                               !.cases = Append(@, val)])

(* the loop of Cases from element i (0 based) on, t being the Test so far: *)
(* the panic it ends with ("" when it ends with none) and where            *)
RECURSIVE CasesLoop(_, _, _)
CasesLoop(args, i, t) ==
    IF i >= Len(args) THEN [panic |-> "", at |-> i, tc |-> t]
    ELSE LET val == ValueOf(args[i+1])
         IN IF val.kind = "invalid"
            THEN [panic |-> "not a valid test case", at |-> i, tc |-> t]
            ELSE IF t.vType = "nil"
            THEN CasesLoop(args, i+1,
                     [t EXCEPT !.vType = val.type, !.cases = Append(@, val)])
            ELSE IF val.type # t.vType
            THEN [panic |-> "should be of type", at |-> i, tc |-> t]
            ELSE CasesLoop(args, i+1, [t EXCEPT !.cases = Append(@, val)])

----------------------------------------------------------------------------
(* a slip: parameter one of a two parameter function is not checked *)
Validate_NoIntCheck(function, vType) ==
    IF function.kind # "func" THEN "Was not provided a function"
    ELSE IF Len(function.in) = 1 /\ function.in[1] # vType
    THEN "Incorrect parameter"
    ELSE IF Len(function.in) = 2 /\ function.in[2] # vType
    THEN "Incorrect parameter two"
    ELSE IF Len(function.in) \notin {1, 2}
    THEN "Incorrect number of parameters"
    ELSE IF Len(function.out) = 1 /\ function.out[1] # "bool"
    THEN "Expected out parameter to be a boolean"
    ELSE IF Len(function.out) \notin {0, 1}
    THEN "Expected no out parameters or a boolean"
    ELSE ""

(* a slip: a Test with no element type takes a test case of any type *)
Validate_UnsetTypeAccepted(function, vType) ==
    IF function.kind # "func" THEN "Was not provided a function"
    ELSE IF Len(function.in) = 1 /\ vType # "nil" /\ function.in[1] # vType
    THEN "Incorrect parameter"
    ELSE IF Len(function.in) = 2 /\ function.in[1] # "int"
    THEN "Incorrect parameter one"
    ELSE IF Len(function.in) = 2 /\ vType # "nil" /\ function.in[2] # vType
    THEN "Incorrect parameter two"
    ELSE IF Len(function.in) \notin {1, 2}
    THEN "Incorrect number of parameters"
    ELSE IF Len(function.out) = 1 /\ function.out[1] # "bool"
    THEN "Expected out parameter to be a boolean"
    ELSE IF Len(function.out) \notin {0, 1}
    THEN "Expected no out parameters or a boolean"
    ELSE ""

(* The checks Run makes of its argument, in the order it makes them: the   *)
(* message of the first panic, "" when there is none.  The type of a       *)
(* parameter is never nil, the vType of a Test without cases is.           *)
Validate(function, vType) ==
    IF function.kind # "func" THEN "Was not provided a function"
    ELSE IF Len(function.in) = 1 /\ function.in[1] # vType
    THEN "Incorrect parameter"
    ELSE IF Len(function.in) = 2 /\ function.in[1] # "int"
    THEN "Incorrect parameter one"
    ELSE IF Len(function.in) = 2 /\ function.in[2] # vType
    THEN "Incorrect parameter two"
    ELSE IF Len(function.in) \notin {1, 2}
    THEN "Incorrect number of parameters"
    ELSE IF Len(function.out) = 1 /\ function.out[1] # "bool"
    THEN "Expected out parameter to be a boolean"
    ELSE IF Len(function.out) \notin {0, 1}
    THEN "Expected no out parameters or a boolean"
    ELSE ""

----------------------------------------------------------------------------
(* a slip: the result of the function is not looked at *)
runTest_IgnoresResult(result, idx, testcase, tp, r) ==
    [idx    |-> idx,
     params |-> IF tp THEN <<idx, testcase>> ELSE <<testcase>>,
     ret    |-> IF ~r THEN "none" ELSE IF result THEN "true" ELSE "false",
     go     |-> TRUE]

(* runTest: one call of the function.  result is what the function returns *)
(* on this call when it returns a bool; go is the value runTest returns.   *)
(* idx, params and ret record the call: the index runTest was given, the   *)
(* parameters handed to the function and what it returned.                 *)
runTest(result, idx, testcase, tp, r) ==
    [idx    |-> idx,
     params |-> IF tp THEN <<idx, testcase>> ELSE <<testcase>>,
     ret    |-> IF ~r THEN "none" ELSE IF result THEN "true" ELSE "false",
     go     |-> IF r THEN result ELSE TRUE]

(* the state of a loop of Run: the calls made so far and count *)
NoCalls == [log |-> <<>>, count |-> 0]

(* a slip: count is incremented before the range check *)
RECURSIVE RunOverride_CountsSkipped(_, _, _, _, _, _)
RunOverride_CountsSkipped(idxs, cases, tp, r, results, st) ==
    IF idxs = <<>> THEN st
    ELSE LET idx == Head(idxs)
             counted == [st EXCEPT !.count = @ + 1]
         IN IF idx < 0 \/ idx >= Len(cases)
            THEN RunOverride_CountsSkipped(Tail(idxs), cases, tp, r, results, counted)
            ELSE LET call == runTest(results[Len(st.log)+1], idx, cases[idx+1], tp, r)
                     next == [counted EXCEPT !.log = Append(@, call)]
                 IN IF ~call.go THEN next
                    ELSE RunOverride_CountsSkipped(Tail(idxs), cases, tp, r, results, next)

(* the loop over the indexes of the flag *)
RECURSIVE RunOverride(_, _, _, _, _, _)
RunOverride(idxs, cases, tp, r, results, st) ==
    IF idxs = <<>> THEN st
    ELSE LET idx == Head(idxs)
         IN IF idx < 0 \/ idx >= Len(cases)
            THEN RunOverride(Tail(idxs), cases, tp, r, results, st)
            ELSE LET call == runTest(results[Len(st.log)+1], idx, cases[idx+1], tp, r)
                     next == [log |-> Append(st.log, call), count |-> st.count + 1]
                 IN IF ~call.go THEN next
                    ELSE RunOverride(Tail(idxs), cases, tp, r, results, next)

(* a slip: the index handed to the function counts from one *)
RECURSIVE RunInOrder_FromOne(_, _, _, _, _, _)
RunInOrder_FromOne(idx, cases, tp, r, results, st) ==
    IF idx >= Len(cases) THEN st
    ELSE LET call == runTest(results[Len(st.log)+1], idx + 1, cases[idx+1], tp, r)
             next == [log |-> Append(st.log, call), count |-> st.count + 1]
         IN IF ~call.go THEN next
            ELSE RunInOrder_FromOne(idx + 1, cases, tp, r, results, next)

(* the loop over tc.cases, from index idx on *)
RECURSIVE RunInOrder(_, _, _, _, _, _)
RunInOrder(idx, cases, tp, r, results, st) ==
    IF idx >= Len(cases) THEN st
    ELSE LET call == runTest(results[Len(st.log)+1], idx, cases[idx+1], tp, r)
             next == [log |-> Append(st.log, call), count |-> st.count + 1]
         IN IF ~call.go THEN next
            ELSE RunInOrder(idx + 1, cases, tp, r, results, next)

(* a slip: the test case is taken at the position in list, not at list's index *)
RECURSIVE RunRandom_CaseByPosition(_, _, _, _, _, _)
RunRandom_CaseByPosition(list, cases, tp, r, results, st) ==
    IF list = <<>> THEN st
    ELSE LET idx == Head(list)
             call == runTest(results[Len(st.log)+1], idx, cases[Len(st.log)+1], tp, r)
             next == [log |-> Append(st.log, call), count |-> st.count + 1]
         IN IF ~call.go THEN next
            ELSE RunRandom_CaseByPosition(Tail(list), cases, tp, r, results, next)

(* the loop over list, the permutation *)
RECURSIVE RunRandom(_, _, _, _, _, _)
RunRandom(list, cases, tp, r, results, st) ==
    IF list = <<>> THEN st
    ELSE LET idx == Head(list)
             call == runTest(results[Len(st.log)+1], idx, cases[idx+1], tp, r)
             next == [log |-> Append(st.log, call), count |-> st.count + 1]
         IN IF ~call.go THEN next
            ELSE RunRandom(Tail(list), cases, tp, r, results, next)

(* a slip: n random indexes below n, not a permutation *)
Perm_Repeats(n) == [1..n -> 0..(n-1)]

(* rand.Perm(n): the permutations of 0..n-1, as lists *)
Perm(n) == {p \in [1..n -> 0..(n-1)] : \A i, j \in 1..n : p[i] = p[j] => i = j}

----------------------------------------------------------------------------
NoRun ==
    [outcome |-> "none", function |-> NotAFunc, panic |-> "", mode |-> "none",
     log |-> <<>>, count |-> 0]

Init ==
    /\ runorder = <<>>
    /\ testcases = <<>>
    /\ built = [st |-> "none", panic |-> "", at |-> 0]
    /\ tc = ZeroTest
    /\ run = NoRun

(* flag.Parse sets the flag, before any test runs *)
SetRunOrder(s) ==
    /\ built.st = "none"
    /\ runorder' = s
    /\ UNCHANGED <<testcases, built, tc, run>>

(* tc := Cases(args...) *)
Cases(args) ==
    /\ built.st = "none"
    /\ testcases' = args
    /\ LET res == CasesLoop(args, 0, ZeroTest)
       IN IF res.panic # ""
          THEN /\ built' = [st |-> "panic", panic |-> res.panic, at |-> res.at]
               /\ tc' = tc
          ELSE /\ built' = [st |-> "ok", panic |-> "", at |-> res.at]
               /\ tc' = res.tc
    /\ UNCHANGED <<runorder, run>>

(* tc.InOrder = b, between two calls of Run *)
SetInOrder(b) ==
    /\ built.st = "ok"
    /\ run.outcome = "none"
    /\ tc.InOrder # b
    /\ tc' = [tc EXCEPT !.InOrder = b]
    /\ UNCHANGED <<runorder, testcases, built, run>>

(* What a function that returns a bool answers on its calls 1..len: true,  *)
(* but for at most one call k.                                             *)
Answers(len) == {[i \in 1..len |-> i # k] : k \in 0..len}

(* what a call of Run that reached one of its loops leaves *)
Returned(function, mode, st) ==
    [outcome |-> "returned", function |-> function, panic |-> "", mode |-> mode,
     log |-> st.log, count |-> st.count]

(* tc.Run(function), from its first line to its return or its panic *)
Run(function) ==
    /\ built.st = "ok"
    /\ run.outcome = "none"
    /\ LET why == Validate(function, tc.vType)
           tp  == Len(function.in) = 2
           r   == Len(function.out) = 1
           n   == Len(tc.cases)
           ro  == runOrder(runorder)
           Results(len) == IF r THEN Answers(len) ELSE {[i \in 1..len |-> TRUE]}
       IN IF why # ""
          THEN run' = [NoRun EXCEPT !.outcome = "panic", !.function = function,
                                     !.panic = why]
          ELSE IF n = 0
          THEN run' = [NoRun EXCEPT !.outcome = "returned", !.function = function]
          ELSE IF ro.ok
          THEN \E results \in Results(Len(ro.idx)) :
                   run' = Returned(function, "override",
                              RunOverride(ro.idx, tc.cases, tp, r, results, NoCalls))
          ELSE IF tc.InOrder
          THEN \E results \in Results(n) :
                   run' = Returned(function, "inorder",
                              RunInOrder(0, tc.cases, tp, r, results, NoCalls))
          ELSE \E list \in Perm(n) : \E results \in Results(n) :
                   run' = Returned(function, "random",
                              RunRandom(list, tc.cases, tp, r, results, NoCalls))
    /\ UNCHANGED <<runorder, testcases, built, tc>>

(* The caller has the count that Run returned and goes on: it may set      *)
(* InOrder and call Run again.  A panic ends the program.                  *)
NextCall ==
    /\ run.outcome = "returned"
    /\ run' = NoRun
    /\ UNCHANGED <<runorder, testcases, built, tc>>

(* the arguments Cases is called with *)
CasesArgs == SeqsUpTo(Elements, MaxCases)

Next ==
    \/ built.st = "none" /\ \E s \in FlagValues : SetRunOrder(s)
    \/ built.st = "none" /\ \E args \in CasesArgs : Cases(args)
    \/ built.st = "ok" /\ \E b \in BOOLEAN : SetInOrder(b)
    \/ built.st = "ok" /\ \E function \in Functions : Run(function)
    \/ NextCall

Spec == Init /\ [][Next]_vars

----------------------------------------------------------------------------
(* Vocabulary of the properties *)

N == Len(tc.cases)

Ended == built.st = "ok" /\ run.outcome # "none"

HasReturned == built.st = "ok" /\ run.outcome = "returned"

(* the indexes of the calls that Run made, in the order it made them *)
LogIdx == [j \in 1..Len(run.log) |-> run.log[j].idx]

(* the function never answered false during the call of Run *)
AlwaysContinues == \A j \in 1..Len(run.log) : run.log[j].ret # "false"

(* the flag is not empty and one of its pieces is an integer *)
SomeTokenParses ==
    /\ runorder # <<>>
    /\ \E i \in 1..Len(Split(runorder)) : ~ParseInt(Split(runorder)[i]).err

(* the integers of the flag, and those of them that are indexes of tc.cases *)
Parsed == GoodValues(Split(runorder))

InRange(v) == v >= 0 /\ v < N

Visited == SelectSeq(Parsed, InRange)

IsPrefix(a, b) == Len(a) <= Len(b) /\ \A i \in 1..Len(a) : a[i] = b[i]

Occurrences(seq, v) == Cardinality({j \in 1..Len(seq) : seq[j] = v})

TwoParams == Len(run.function.in) = 2

----------------------------------------------------------------------------
----------------------------------------------------------------------------
(* C2, as stated: on n > 0 cases and a function that always continues, Run *)
(* calls the function exactly n times, once per index of 0..n-1, in every  *)
(* order mode, the flag included.  The flag may repeat and omit indexes,   *)
(* so this fails.                                                          *)
C2_EveryIndexOnceAnyMode ==
    (HasReturned /\ N > 0 /\ AlwaysContinues) =>
        /\ Len(run.log) = N
        /\ run.count = N
        /\ \A i \in 0..(N-1) : Occurrences(LogIdx, i) = 1

(* C2, amended: the same, when the flag gives no order (in order and       *)
(* random modes).                                                          *)
C2_EveryIndexOnce ==
    (HasReturned /\ N > 0 /\ AlwaysContinues /\ ~SomeTokenParses) =>
        /\ Len(run.log) = N
        /\ run.count = N
        /\ \A i \in 0..(N-1) : Occurrences(LogIdx, i) = 1

(* a random run over three cases that was not in order *)
C2_Witness ==
    /\ HasReturned /\ N = 3 /\ ~tc.InOrder /\ ~SomeTokenParses
    /\ AlwaysContinues
    /\ LogIdx = <<2, 0, 1>>

----------------------------------------------------------------------------
(* C3: if the function first answers false on its k-th call, Run returns k *)
(* and calls nothing after it; if it never answers false, every index of   *)
(* the resolved order that is in range is called.                          *)
C3_StopsAtFirstFalse ==
    (HasReturned /\ N > 0) =>
        LET falses == {j \in 1..Len(run.log) : run.log[j].ret = "false"}
        IN  IF falses # {}
            THEN LET k == CHOOSE j \in falses : \A m \in falses : j <= m
                 IN run.count = k /\ Len(run.log) = k
            ELSE /\ run.count = Len(run.log)
                 /\ IF SomeTokenParses THEN LogIdx = Visited
                    ELSE /\ Len(run.log) = N
                         /\ \A i \in 0..(N-1) : Occurrences(LogIdx, i) >= 1

(* the function answered false on the second of three possible calls *)
C3_Witness ==
    /\ HasReturned /\ N = 3 /\ ~SomeTokenParses
    /\ Len(run.log) = 2
    /\ run.log[1].ret = "true" /\ run.log[2].ret = "false"
    /\ run.count = 2

----------------------------------------------------------------------------
(* C4: the order of the flag is used exactly when the flag is not empty    *)
(* and one of its pieces is an integer, whatever InOrder is; otherwise     *)
(* InOrder gives 0, 1, ..., n-1 and ~InOrder a permutation of 0..n-1.      *)
C4_OrderPrecedence ==
    (HasReturned /\ N > 0) =>
        /\ (run.mode = "override") = SomeTokenParses
        /\ SomeTokenParses =>
              /\ IsPrefix(LogIdx, Visited)
              /\ AlwaysContinues => LogIdx = Visited
        /\ (~SomeTokenParses /\ tc.InOrder) =>
              /\ run.mode = "inorder"
              /\ IsPrefix(LogIdx, [i \in 1..N |-> i - 1])
              /\ AlwaysContinues => Len(run.log) = N
        /\ (~SomeTokenParses /\ ~tc.InOrder) =>
              /\ run.mode = "random"
              /\ \A j \in 1..Len(run.log) : InRange(LogIdx[j])
              /\ \A i, j \in 1..Len(run.log) : LogIdx[i] = LogIdx[j] => i = j
              /\ AlwaysContinues => Len(run.log) = N

(* InOrder is set and the flag "0x,2,0" still gave the order 2, 0 *)
C4_Witness ==
    /\ HasReturned /\ N = 3 /\ tc.InOrder
    /\ Split(runorder) = << <<"0", "x">>, <<"2">>, <<"0">> >>
    /\ LogIdx = <<2, 0>>

----------------------------------------------------------------------------
(* C5: under the flag and a function that always continues, the indexes    *)
(* called are the integers of the flag without those outside               *)
(* [0, len(cases)), in their order and with their repetitions, and Run     *)
(* returns their number.                                                   *)
C5_OverrideFiltered ==
    (HasReturned /\ N > 0 /\ SomeTokenParses /\ AlwaysContinues) =>
        /\ LogIdx = Visited
        /\ run.count = Len(Visited)

(* "2,-1,2" on three cases: calls 2, 2 and returns 2 *)
C5_Witness ==
    /\ HasReturned /\ N = 3 /\ AlwaysContinues
    /\ Parsed = <<2, 0 - 1, 2>>
    /\ LogIdx = <<2, 2>>
    /\ run.count = 2

----------------------------------------------------------------------------
(* C6: with InOrder set and no order from the flag, the indexes called are *)
(* 0, 1, 2, ... in this order: all of 0..n-1, or the prefix that ends with *)
(* the call that answered false.                                           *)
C6_InOrderSequence ==
    (HasReturned /\ N > 0 /\ tc.InOrder /\ ~SomeTokenParses) =>
        /\ LogIdx = [j \in 1..Len(run.log) |-> j - 1]
        /\ Len(run.log) >= 1 /\ Len(run.log) <= N
        /\ Len(run.log) < N => run.log[Len(run.log)].ret = "false"

(* an in order run over three cases *)
C6_Witness ==
    /\ HasReturned /\ N = 3 /\ tc.InOrder /\ ~SomeTokenParses
    /\ LogIdx = <<0, 1, 2>>

----------------------------------------------------------------------------
(* what C7 says Run rejects, for a Test of elements of type vType *)
C7_Rejected(function, vType) ==
    \/ function.kind # "func"
    \/ Len(function.in) \notin {1, 2}
    \/ Len(function.in) = 1 /\ function.in[1] # vType
    \/ Len(function.in) = 2 /\ (function.in[1] # "int" \/ function.in[2] # vType)
    \/ Len(function.out) > 1
    \/ Len(function.out) = 1 /\ function.out[1] # "bool"

(* the four forms of the documentation of Run *)
C7_Accepted(function, vType) ==
    /\ function.kind = "func"
    /\ function.in \in {<<vType>>, <<"int", vType>>}
    /\ function.out \in {<<>>, <<"bool">>}

(* C7: on a Test with cases, Run panics exactly for the arguments C7 lists *)
(* and has then called nothing; the four accepted forms never panic.       *)
C7_ValidationBeforeCalls ==
    (Ended /\ N > 0) =>
        /\ (run.outcome = "panic") = C7_Rejected(run.function, tc.vType)
        /\ run.outcome = "panic" => (run.log = <<>> /\ run.panic # "")
        /\ C7_Accepted(run.function, tc.vType) => run.outcome = "returned"

(* Run(func(string, int)) on cases of type int has panicked *)
C7_Witness ==
    /\ Ended /\ N > 0 /\ tc.vType = "int"
    /\ run.function = [kind |-> "func", in |-> <<"string", "int">>, out |-> <<>>]
    /\ run.outcome = "panic"

----------------------------------------------------------------------------
(* the elements Cases rejects: nil, or not of the type of the first one *)
C8_BadElements ==
    {i \in 1..Len(testcases) :
        testcases[i] = NilIface \/ testcases[i].type # testcases[1].type}

C8_AfterCases ==
    built.st # "none" =>
        IF C8_BadElements # {}
        THEN /\ built.st = "panic"
             /\ built.at + 1 \in C8_BadElements
             /\ \A i \in C8_BadElements : built.at + 1 <= i
             /\ tc = ZeroTest
             /\ run = NoRun
        ELSE /\ built.st = "ok"
             /\ Len(tc.cases) = Len(testcases)
             /\ \A i \in 1..Len(testcases) :
                   /\ tc.cases[i].type = testcases[i].type
                   /\ tc.cases[i].val = testcases[i].val
             /\ tc.vType = IF testcases = <<>> THEN "nil" ELSE testcases[1].type

(* C8: Cases panics at the first element that is nil or not of the type of *)
(* the first element, and then there is no Test and no call; otherwise the *)
(* Test holds the elements in their order, vType is the type of the first  *)
(* one, and InOrder is false when Cases returns.                           *)
C8_CasesScan ==
    /\ []C8_AfterCases
    /\ [][(built.st = "none" /\ built'.st = "ok") => ~tc'.InOrder]_vars

(* Cases(10, 20, "30") has panicked at element 2 *)
C8_Witness ==
    /\ built.st = "panic" /\ built.at = 2
    /\ Len(testcases) = 3
    /\ testcases[1].type = "int" /\ testcases[2].type = "int"
    /\ testcases[3].type = "string"

----------------------------------------------------------------------------
(* C9: when the flag has integers and none is an index of tc.cases, Run    *)
(* calls nothing and returns 0, whatever InOrder is.                       *)
C9_OverrideAllOutOfRange ==
    (Ended /\ N > 0 /\ ~C7_Rejected(run.function, tc.vType)
           /\ SomeTokenParses /\ Visited = <<>>) =>
        (run.outcome = "returned" /\ run.log = <<>> /\ run.count = 0)

(* the flag "-1" on three cases in order: no call, 0 returned *)
C9_Witness ==
    /\ HasReturned /\ N = 3 /\ tc.InOrder
    /\ Parsed = <<0 - 1>>
    /\ run.log = <<>> /\ run.count = 0

----------------------------------------------------------------------------
(* C10: every call gets the case stored at the index being visited, which  *)
(* is the element of that index given to Cases, and a function of two      *)
(* parameters gets that index, 0 <= index < len(cases), with it.           *)
C10_IndexAndCaseInStep ==
    HasReturned =>
        /\ SomeTokenParses => IsPrefix(LogIdx, Visited)
        /\ \A j \in 1..Len(run.log) :
              LET e == run.log[j]
                  c == ValueOf(testcases[e.idx + 1])
              IN  /\ InRange(e.idx)
                  /\ tc.cases[e.idx + 1] = c
                  /\ IF TwoParams THEN e.params = <<e.idx, c>>
                                  ELSE e.params = <<c>>

(* a random run of a function of two parameters over 10, 10, 20 that began *)
(* with index 2 and its case 20                                            *)
C10_Witness ==
    /\ HasReturned /\ N = 3 /\ ~tc.InOrder /\ ~SomeTokenParses /\ TwoParams
    /\ testcases[1].val = 10 /\ testcases[2].val = 10 /\ testcases[3].val = 20
    /\ Len(run.log) = 3
    /\ run.log[1].params = <<2, ValueOf(testcases[3])>>

====
